---- MODULE Spec2Model ----
(***************************************************************************)
(* Access resolution of the Lumor photo-sharing backend: friendships,      *)
(* permission groups, share grants, photos, albums, and the permission     *)
(* checks of PermissionUtils that read them.                               *)
(*                                                                         *)
(* The data store is modelled table by table.  A table has the columns     *)
(* that the JavaScript statements name; a column that the inserting        *)
(* statement does not name holds NULL.  A handler is one atomic action     *)
(* with every branch of its code.  What a call answers is a function of    *)
(* the state it is made in: for a handler h, hResult(args) is that answer  *)
(* ("ok" or the message of the error), and the action h(args) changes the  *)
(* tables only when hResult(args) is "ok".  A call that fails, and a call  *)
(* that only reads, leaves every table as it is.                           *)
(***************************************************************************)
EXTENDS Integers, FiniteSets, Sequences, TLC

(***************************************************************************)
(* Bounds                                                                  *)
(***************************************************************************)
NumUsers == 3
MaxFriendshipId == 1
MaxPhotoId == 1
MaxAlbumId == 1
MaxGroupId == 1
MaxShareId == 1
MaxTime == 1
MaxListLen == 2
MaxRacingRequests == 2
MaxTransactions == 2

NULL == 0                       \* SQL NULL, JavaScript null
UNDEFINED == 0 - 1              \* JavaScript undefined
ABSENT == "undefined"           \* JavaScript undefined, for a string field
NULL_TEXT == "NULL"             \* SQL NULL in a text column
Users == 1..NumUsers            \* rows of table users
UserIds == 1..(NumUsers + 1)    \* ids a caller may name; the last one has no row
PermissionTypes == {"public", "friends", "close_friends", "custom"}

VARIABLES
    friendships,               \* table friendships
    friendships_id_seq,        \* SERIAL of friendships.id
    sending,                   \* sendFriendRequest calls between their check and their INSERT
    photos,                    \* table photos
    photos_id_seq,
    albums,                    \* table albums
    albums_id_seq,
    album_photos,              \* table album_photos
    access_permissions,        \* table access_permissions (read only)
    permission_groups,         \* table permission_groups
    permission_groups_id_seq,
    permission_group_members,  \* table permission_group_members
    replacing,                 \* the open transactions of PermissionModel.updatePermissionGroup
    inflight,                  \* the PermissionService call between its validation and its model call
    photo_shares,              \* table photo_shares
    photo_shares_id_seq,
    album_shares,              \* table album_shares
    album_shares_id_seq,
    now,                       \* CURRENT_TIMESTAMP
    users                      \* table users: the auto_sync_* columns of each user

friendVars == <<friendships, friendships_id_seq, sending>>
photoVars == <<photos, photos_id_seq>>
albumVars == <<albums, albums_id_seq, album_photos>>
groupVars == <<permission_groups, permission_groups_id_seq, permission_group_members,
              inflight, replacing>>
shareVars == <<photo_shares, photo_shares_id_seq, album_shares, album_shares_id_seq>>

vars == <<friendVars, photoVars, albumVars, access_permissions, groupVars, shareVars, now, users>>

(***************************************************************************)
(* FriendModel                                                             *)
(***************************************************************************)
\* rows of: WHERE (requester_id = $1 AND addressee_id = $2)
\*             OR (requester_id = $2 AND addressee_id = $1)
checkFriendshipExists(userId1, userId2) ==
    {f \in friendships :
        \/ (f.requester_id = userId1 /\ f.addressee_id = userId2)
        \/ (f.requester_id = userId2 /\ f.addressee_id = userId1)}

findPendingRequestBetweenUsers(requesterId, addresseeId) ==
    {f \in friendships :
        /\ f.requester_id = requesterId
        /\ f.addressee_id = addresseeId
        /\ f.status = "pending"}

\* getFriendRequestById without its test of the addressee (sensitivity test
\* for C29)
getFriendRequestByIdAnyUser(requestId, addresseeId) ==
    {f \in friendships : f.id = requestId}

getFriendRequestById(requestId, addresseeId) ==
    {f \in friendships : f.id = requestId /\ f.addressee_id = addresseeId}

getFriendshipByUsers(userId, friendId) ==
    {f \in friendships :
        /\ (f.requester_id = userId \/ f.addressee_id = userId)
        /\ (f.requester_id = friendId \/ f.addressee_id = friendId)
        /\ f.status = "accepted"}

updateFriendshipStatus(requestId, status) ==
    {IF f.id = requestId THEN [f EXCEPT !.status = status] ELSE f : f \in friendships}

deleteFriendship(friendshipId) ==
    {f \in friendships : f.id # friendshipId}

\* FriendModel.areFriends without its test of the status (sensitivity test
\* for C12)
FriendModel_areFriendsAnyStatus(userId1, userId2) ==
    checkFriendshipExists(userId1, userId2) # {}

\* FriendModel.areFriends: the row checkFriendshipExists returns, if accepted
FriendModel_areFriends(userId1, userId2) ==
    \E friendship \in checkFriendshipExists(userId1, userId2) :
        friendship.status = "accepted"

(***************************************************************************)
(* PermissionUtils.areFriends                                              *)
(***************************************************************************)
\* areFriends matching one direction only: the row must have userId1 as its
\* requester (sensitivity test for C3)
areFriendsOneWay(userId1, userId2) ==
    \E f \in friendships :
        /\ f.requester_id = userId1
        /\ f.addressee_id = userId2
        /\ f.status = "accepted"

areFriends(userId1, userId2) ==
    \E f \in friendships :
        /\ \/ (f.requester_id = userId1 /\ f.addressee_id = userId2)
           \/ (f.requester_id = userId2 /\ f.addressee_id = userId1)
        /\ f.status = "accepted"

(***************************************************************************)
(* FriendService                                                           *)
(***************************************************************************)
sendFriendRequestResult(requesterId, targetUserId) ==
    IF requesterId = targetUserId THEN "Cannot send friend request to yourself"
    ELSE IF targetUserId \notin Users THEN "User not found"
    ELSE IF checkFriendshipExists(requesterId, targetUserId) # {}
    THEN LET existingFriendship ==
                 CHOOSE f \in checkFriendshipExists(requesterId, targetUserId) : TRUE
         IN CASE existingFriendship.status = "pending"
                   -> "Friend request already sent or received"
              [] existingFriendship.status = "accepted" -> "You are already friends"
              [] existingFriendship.status = "declined"
                   -> "Friend request was previously declined"
              [] OTHER -> "Friendship relationship already exists"
    ELSE "ok"

sendFriendRequest(requesterId, targetUserId) ==
    /\ UNCHANGED <<photoVars, albumVars, access_permissions, groupVars, shareVars, now, users,
                   sending>>
    /\ IF sendFriendRequestResult(requesterId, targetUserId) # "ok"
       THEN UNCHANGED friendVars
       ELSE /\ friendships_id_seq <= MaxFriendshipId
            /\ friendships' = friendships \cup
                   {[id |-> friendships_id_seq, requester_id |-> requesterId,
                     addressee_id |-> targetUserId, status |-> "pending"]}
            /\ friendships_id_seq' = friendships_id_seq + 1

\* FriendService.sendFriendRequest awaits checkFriendshipExists and then awaits
\* FriendModel.sendFriendRequest: two steps, and other requests run between
\* them.  sending holds the calls whose check has passed.
sendFriendRequestChecked(requesterId, targetUserId) ==
    /\ sendFriendRequestResult(requesterId, targetUserId) = "ok"
    /\ <<requesterId, targetUserId>> \notin sending
    /\ friendships_id_seq + Cardinality(sending) <= MaxRacingRequests
    /\ sending' = sending \cup {<<requesterId, targetUserId>>}
    /\ UNCHANGED <<friendships, friendships_id_seq>>
    /\ UNCHANGED <<photoVars, albumVars, access_permissions, groupVars, shareVars, now, users>>

\* the INSERT of FriendModel.sendFriendRequest; it fails on
\* UNIQUE(requester_id, addressee_id), and the SERIAL value is used up
FriendModel_sendFriendRequest(requesterId, addresseeId) ==
    /\ <<requesterId, addresseeId>> \in sending
    /\ sending' = sending \ {<<requesterId, addresseeId>>}
    /\ friendships_id_seq' = friendships_id_seq + 1
    /\ IF \E f \in friendships :
             f.requester_id = requesterId /\ f.addressee_id = addresseeId
       THEN UNCHANGED friendships
       ELSE friendships' = friendships \cup
                {[id |-> friendships_id_seq, requester_id |-> requesterId,
                  addressee_id |-> addresseeId, status |-> "pending"]}
    /\ UNCHANGED <<photoVars, albumVars, access_permissions, groupVars, shareVars, now, users>>

respondToFriendRequestResult(userId, requestId, action) ==
    IF getFriendRequestById(requestId, userId) = {}
    THEN "Friend request not found or you are not authorized to respond"
    ELSE IF \E friendRequest \in getFriendRequestById(requestId, userId) :
               friendRequest.status # "pending"
    THEN "Friend request has already been responded to"
    ELSE "ok"

respondToFriendRequest(userId, requestId, action) ==
    /\ UNCHANGED <<photoVars, albumVars, access_permissions, groupVars, shareVars, now, users,
                   sending>>
    /\ UNCHANGED friendships_id_seq
    /\ IF respondToFriendRequestResult(userId, requestId, action) # "ok"
       THEN UNCHANGED friendships
       ELSE friendships' = updateFriendshipStatus(requestId,
                IF action = "accept" THEN "accepted" ELSE "declined")

respondToFriendRequestByUserIdResult(userId, friendId, action) ==
    IF findPendingRequestBetweenUsers(friendId, userId) = {}
    THEN "Friend request not found"
    ELSE "ok"

respondToFriendRequestByUserId(userId, friendId, action) ==
    /\ UNCHANGED <<photoVars, albumVars, access_permissions, groupVars, shareVars, now, users,
                   sending>>
    /\ UNCHANGED friendships_id_seq
    /\ IF respondToFriendRequestByUserIdResult(userId, friendId, action) # "ok"
       THEN UNCHANGED friendships
       ELSE \E friendRequest \in findPendingRequestBetweenUsers(friendId, userId) :
              friendships' = updateFriendshipStatus(friendRequest.id,
                  IF action = "accept" THEN "accepted" ELSE "declined")

removeFriendResult(userId, friendId) ==
    IF getFriendshipByUsers(userId, friendId) = {} THEN "Friendship not found" ELSE "ok"

removeFriend(userId, friendId) ==
    /\ UNCHANGED <<photoVars, albumVars, access_permissions, groupVars, shareVars, now, users,
                   sending>>
    /\ UNCHANGED friendships_id_seq
    /\ IF removeFriendResult(userId, friendId) # "ok"
       THEN UNCHANGED friendships
       ELSE \E friendship \in getFriendshipByUsers(userId, friendId) :
              friendships' = deleteFriendship(friendship.id)

(***************************************************************************)
(* PhotoModel                                                              *)
(***************************************************************************)
\* PhotoModel.create: customGroupId || null
create(ownerId, permissionType, customGroupId) ==
    [id |-> photos_id_seq, user_id |-> ownerId, permission_type |-> permissionType,
     custom_group_id |-> IF customGroupId = UNDEFINED THEN NULL ELSE customGroupId]

findById(photoId) == {p \in photos : p.id = photoId}

PhotoModel_isOwner(photoId, userId) ==
    [exists |-> \E p \in photos : p.id = photoId,
     isOwner |-> \E p \in photos : p.id = photoId /\ p.user_id = userId]

isCustomGroupOwner(groupId, userId) ==
    \E g \in access_permissions : g.id = groupId /\ g.user_id = userId

(***************************************************************************)
(* PermissionUtils.checkPhotoPermission                                    *)
(***************************************************************************)
\* checkPhotoPermission without its self-access branch (sensitivity test for C1)
checkPhotoPermissionPolicyOnly(currentUserId, photoOwnerId, permissionType, customGroupId) ==
    CASE permissionType = "public" ->
           [hasPermission |-> TRUE, reason |-> "Public access"]
      [] permissionType \in {"friends", "close_friends"} ->
           [hasPermission |-> areFriends(currentUserId, photoOwnerId),
            reason |-> IF areFriends(currentUserId, photoOwnerId)
                       THEN "Friend access" ELSE "Not friends"]
      [] permissionType = "custom" ->
           [hasPermission |-> \E g \in access_permissions :
                                 /\ g.id = customGroupId
                                 /\ g.user_id = photoOwnerId
                                 /\ currentUserId \in g.allowed_user_ids,
            reason |-> "custom"]
      [] OTHER -> [hasPermission |-> FALSE, reason |-> "Invalid permission type"]

\* checkPhotoPermission without the test for a missing custom group id
checkPhotoPermissionNoGroupIdTest(currentUserId, photoOwnerId, permissionType, customGroupId) ==
    IF currentUserId = photoOwnerId
    THEN [hasPermission |-> TRUE, reason |-> "Owner access"]
    ELSE CASE permissionType = "public" ->
                 [hasPermission |-> TRUE, reason |-> "Public access"]
           [] permissionType \in {"friends", "close_friends"} ->
                 LET isFriend == areFriends(currentUserId, photoOwnerId)
                 IN [hasPermission |-> isFriend,
                     reason |-> IF isFriend THEN "Friend access" ELSE "Not friends"]
           [] permissionType = "custom" ->
                 LET customGroupResult ==
                         {g \in access_permissions :
                             g.id = customGroupId /\ g.user_id = photoOwnerId}
                 IN IF customGroupResult = {}
                    THEN [hasPermission |-> FALSE, reason |-> "Custom group not found"]
                    ELSE LET hasAccess == \E g \in customGroupResult :
                                             currentUserId \in g.allowed_user_ids
                         IN [hasPermission |-> hasAccess,
                             reason |-> IF hasAccess THEN "Custom group access"
                                        ELSE "Not in custom group"]
           [] OTHER -> [hasPermission |-> FALSE, reason |-> "Invalid permission type"]

checkPhotoPermission(currentUserId, photoOwnerId, permissionType, customGroupId) ==
    IF currentUserId = photoOwnerId
    THEN [hasPermission |-> TRUE, reason |-> "Owner access"]
    ELSE CASE permissionType = "public" ->
                 [hasPermission |-> TRUE, reason |-> "Public access"]
           [] permissionType \in {"friends", "close_friends"} ->
                 LET isFriend == areFriends(currentUserId, photoOwnerId)
                 IN [hasPermission |-> isFriend,
                     reason |-> IF isFriend THEN "Friend access" ELSE "Not friends"]
           [] permissionType = "custom" ->
                 IF customGroupId = NULL
                 THEN [hasPermission |-> FALSE, reason |-> "Custom group ID required"]
                 ELSE LET customGroupResult ==
                              {g \in access_permissions :
                                  g.id = customGroupId /\ g.user_id = photoOwnerId}
                      IN IF customGroupResult = {}
                         THEN [hasPermission |-> FALSE, reason |-> "Custom group not found"]
                         ELSE LET hasAccess == \E g \in customGroupResult :
                                                  currentUserId \in g.allowed_user_ids
                              IN [hasPermission |-> hasAccess,
                                  reason |-> IF hasAccess THEN "Custom group access"
                                             ELSE "Not in custom group"]
           [] OTHER -> [hasPermission |-> FALSE, reason |-> "Invalid permission type"]

(***************************************************************************)
(* PhotoService                                                            *)
(***************************************************************************)
uploadPhotoResult(userId, permissionType, customGroupId) ==
    IF permissionType = "custom" /\ customGroupId \in {NULL, UNDEFINED}
    THEN "Custom group ID is required when permission type is custom"
    ELSE IF permissionType = "custom" /\ ~isCustomGroupOwner(customGroupId, userId)
    THEN "Custom permission group not found"
    ELSE "ok"

uploadPhoto(userId, permissionType, customGroupId) ==
    /\ UNCHANGED <<friendVars, albumVars, access_permissions, groupVars, shareVars, now, users>>
    /\ IF uploadPhotoResult(userId, permissionType, customGroupId) # "ok"
       THEN UNCHANGED photoVars
       ELSE /\ photos_id_seq <= MaxPhotoId
            /\ photos' = photos \cup {create(userId, permissionType, customGroupId)}
            /\ photos_id_seq' = photos_id_seq + 1

\* the answer of getPhotoById: "Photo not found", or the permission it checked;
\* the handler throws "Access denied: <reason>" when hasPermission is false
getPhotoByIdResult(photoId, currentUserId) ==
    IF findById(photoId) = {}
    THEN [found |-> FALSE, hasPermission |-> FALSE, reason |-> "Photo not found"]
    ELSE LET photo == CHOOSE p \in findById(photoId) : TRUE
             permission == checkPhotoPermission(currentUserId, photo.user_id,
                               photo.permission_type, photo.custom_group_id)
         IN [found |-> TRUE, hasPermission |-> permission.hasPermission,
             reason |-> permission.reason]

\* a getPhotoById that stores the fallback of a custom photo without group
getPhotoByIdNormalising(photoId, currentUserId) ==
    /\ getPhotoByIdResult(photoId, currentUserId).found
    /\ photos' = {IF /\ p.id = photoId
                     /\ p.permission_type = "custom"
                     /\ p.custom_group_id = NULL
                  THEN [p EXCEPT !.permission_type = "friends"] ELSE p : p \in photos}
    /\ UNCHANGED <<friendVars, photos_id_seq, albumVars, access_permissions, groupVars,
                   shareVars, now, users>>

getPhotoById(photoId, currentUserId) ==
    /\ getPhotoByIdResult(photoId, currentUserId).found
    /\ UNCHANGED vars

\* PhotoModel.findByUserId: the photos of a user (one page holds them all)
findByUserId(userId) == {p \in photos : p.user_id = userId}

\* PhotoService.getUserPhotos: the photos of the page that pass
\* checkPhotoPermission; the others are skipped
getUserPhotosResult(targetUserId, currentUserId) ==
    {photo \in findByUserId(targetUserId) :
        checkPhotoPermission(currentUserId, photo.user_id, photo.permission_type,
                             photo.custom_group_id).hasPermission}

getUserPhotos(targetUserId, currentUserId) == UNCHANGED vars

\* the LEFT JOIN of getTimelineFeed and the JOIN of findFriendsPhotos: the
\* friendships rows between the user and the owner of the photo
joinedFriendships(userId, photo) ==
    {f \in friendships :
        \/ (f.requester_id = userId /\ f.addressee_id = photo.user_id)
        \/ (f.requester_id = photo.user_id /\ f.addressee_id = userId)}

\* a timeline query that joins a friendship of any status
PhotoModel_getTimelineFeedAnyStatus(userId) ==
    {p \in photos :
        \/ p.permission_type = "public"
        \/ (p.permission_type = "friends" /\ joinedFriendships(userId, p) # {})
        \/ (p.permission_type = "close_friends" /\ joinedFriendships(userId, p) # {})
        \/ p.user_id = userId}

\* PhotoModel.getTimelineFeed; PhotoService.getTimelineFeed returns its rows
PhotoModel_getTimelineFeed(userId) ==
    {p \in photos :
        \/ p.permission_type = "public"
        \/ /\ p.permission_type = "friends"
           /\ \E f \in joinedFriendships(userId, p) : f.status = "accepted"
        \/ /\ p.permission_type = "close_friends"
           /\ \E f \in joinedFriendships(userId, p) : f.status = "accepted"
        \/ p.user_id = userId}

getTimelineFeed(userId) == UNCHANGED vars

\* PhotoModel.findFriendsPhotos
findFriendsPhotos(userId) ==
    {p \in photos :
        /\ \E f \in joinedFriendships(userId, p) : f.status = "accepted"
        /\ p.user_id # userId
        /\ p.permission_type \in {"friends", "close_friends", "public"}}

\* PhotoService.discoverFriendsPhotos: a custom photo is kept when the user
\* is in allowed_user_ids of the access_permissions row of its group
discoverFriendsPhotosResult(userId) ==
    {photo \in findFriendsPhotos(userId) :
        IF photo.permission_type = "custom" /\ photo.custom_group_id # NULL
        THEN \E group \in access_permissions :
                 group.id = photo.custom_group_id /\ userId \in group.allowed_user_ids
        ELSE TRUE}

discoverFriendsPhotos(userId) == UNCHANGED vars

\* PhotoService.updatePhoto; a field the caller leaves out is undefined and
\* PhotoModel.update skips it
updatePhotoResult(photoId, userId, permissionType, customGroupId) ==
    IF ~PhotoModel_isOwner(photoId, userId).exists THEN "Photo not found"
    ELSE IF ~PhotoModel_isOwner(photoId, userId).isOwner
    THEN "Access denied. You can only update your own photos."
    ELSE IF /\ permissionType = "custom"
            /\ customGroupId \notin {NULL, UNDEFINED}
            /\ ~isCustomGroupOwner(customGroupId, userId)
    THEN "Custom permission group not found"
    ELSE IF permissionType = ABSENT /\ customGroupId = UNDEFINED
    THEN "No fields to update"
    ELSE "ok"

updatePhoto(photoId, userId, permissionType, customGroupId) ==
    /\ UNCHANGED <<friendVars, albumVars, access_permissions, groupVars, shareVars, now, users>>
    /\ UNCHANGED photos_id_seq
    /\ IF updatePhotoResult(photoId, userId, permissionType, customGroupId) # "ok"
       THEN UNCHANGED photos
       ELSE photos' =
              {IF p.id # photoId THEN p
               ELSE [p EXCEPT
                       !.permission_type =
                           IF permissionType = ABSENT THEN @ ELSE permissionType,
                       !.custom_group_id =
                           IF customGroupId = UNDEFINED THEN @ ELSE customGroupId]
               : p \in photos}

(***************************************************************************)
(* SharingModel and SharingService: albums                                 *)
(***************************************************************************)
\* SharingService.createAlbum maps isPublic to privacyType, and
\* SharingModel.createAlbum stores privacyType === 'public' in is_public;
\* the INSERT does not name privacy_type
createAlbum(userId, isPublic) ==
    /\ UNCHANGED <<friendVars, photoVars, access_permissions, groupVars, shareVars, now, users>>
    /\ albums_id_seq <= MaxAlbumId
    /\ LET privacyType == IF isPublic THEN "public" ELSE "private"
       IN albums' = albums \cup
             {[id |-> albums_id_seq, user_id |-> userId,
               is_public |-> (privacyType = "public"), privacy_type |-> NULL_TEXT]}
    /\ albums_id_seq' = albums_id_seq + 1
    /\ UNCHANGED album_photos

getAlbumById(albumId, userId) ==
    {a \in albums : a.id = albumId /\ (userId # NULL => a.user_id = userId)}

updateAlbumResult(albumId, userId, isPublic) ==
    IF getAlbumById(albumId, userId) = {} THEN "Album not found or access denied"
    ELSE "ok"

\* SharingService.updateAlbum with updateData = {isPublic}
updateAlbum(albumId, userId, isPublic) ==
    /\ UNCHANGED <<friendVars, photoVars, access_permissions, groupVars, shareVars, now, users>>
    /\ UNCHANGED <<albums_id_seq, album_photos>>
    /\ IF updateAlbumResult(albumId, userId, isPublic) # "ok"
       THEN UNCHANGED albums
       ELSE albums' = {IF a.id = albumId THEN [a EXCEPT !.is_public = isPublic] ELSE a
                       : a \in albums}

(***************************************************************************)
(* PermissionUtils.checkAlbumPermission                                    *)
(***************************************************************************)
checkAlbumPermission(currentUserId, albumId) ==
    LET albumResult == {a \in albums : a.id = albumId}
    IN IF albumResult = {}
       THEN [hasPermission |-> FALSE, reason |-> "Album not found"]
       ELSE LET album == CHOOSE a \in albumResult : TRUE
                shareResult ==
                    {ps \in photo_shares :
                        /\ ps.sharer_id = album.user_id
                        /\ ps.recipient_id = currentUserId
                        /\ ps.album_id = albumId
                        /\ ps.is_active
                        /\ (ps.expires_at = NULL \/ ps.expires_at > now)}
            IN IF album.user_id = currentUserId
               THEN [hasPermission |-> TRUE, reason |-> "Owner access"]
               ELSE IF shareResult # {}
               THEN [hasPermission |-> TRUE, reason |-> "Shared access"]
               ELSE IF album.privacy_type = "private"
               THEN [hasPermission |-> FALSE, reason |-> "Private album"]
               ELSE IF album.privacy_type = "friends"
               THEN LET isFriend == areFriends(currentUserId, album.user_id)
                    IN [hasPermission |-> isFriend,
                        reason |-> IF isFriend THEN "Friend access" ELSE "Not friends"]
               ELSE IF album.privacy_type = "public"
               THEN [hasPermission |-> TRUE, reason |-> "Public access"]
               ELSE [hasPermission |-> FALSE, reason |-> "Access denied"]

\* the answer of getAlbumDetails: "Album not found", or the permission it
\* checked; the handler throws "Access denied" when hasPermission is false
getAlbumDetailsResult(albumId, currentUserId) ==
    IF getAlbumById(albumId, NULL) = {}
    THEN [found |-> FALSE, hasPermission |-> FALSE, reason |-> "Album not found"]
    ELSE LET permission == checkAlbumPermission(currentUserId, albumId)
         IN [found |-> TRUE, hasPermission |-> permission.hasPermission,
             reason |-> permission.reason]

getAlbumDetails(albumId, currentUserId) ==
    /\ getAlbumDetailsResult(albumId, currentUserId).found
    /\ UNCHANGED vars

\* SharingModel.getAlbumPhotos: the photos the album lists
getAlbumPhotos(albumId) ==
    {ap.photo_id : ap \in {r \in album_photos : r.album_id = albumId}}

\* the photos getAlbumDetails returns to currentUserId: none when it throws
getAlbumDetailsPhotos(albumId, currentUserId) ==
    IF getAlbumDetailsResult(albumId, currentUserId).hasPermission
    THEN getAlbumPhotos(albumId)
    ELSE {}

\* SharingService.addPhotosToAlbum and removePhotosFromAlbum check the album
\* and every photo of the list the same way; an empty list makes the
\* statement of SharingModel malformed
albumPhotosResult(albumId, photoIds, userId) ==
    IF getAlbumById(albumId, userId) = {} THEN "Album not found or access denied"
    ELSE IF \E photoId \in photoIds : ~PhotoModel_isOwner(photoId, userId).isOwner
    THEN "Photos not found or access denied"
    ELSE IF photoIds = {} THEN "syntax error"
    ELSE "ok"

addPhotosToAlbum(albumId, photoIds, userId) ==
    /\ UNCHANGED <<friendVars, photoVars, access_permissions, groupVars, shareVars, now, users>>
    /\ UNCHANGED <<albums, albums_id_seq>>
    /\ IF albumPhotosResult(albumId, photoIds, userId) # "ok"
       THEN UNCHANGED album_photos
       ELSE album_photos' = album_photos \cup
                {[album_id |-> albumId, photo_id |-> photoId] : photoId \in photoIds}

removePhotosFromAlbum(albumId, photoIds, userId) ==
    /\ UNCHANGED <<friendVars, photoVars, access_permissions, groupVars, shareVars, now, users>>
    /\ UNCHANGED <<albums, albums_id_seq>>
    /\ IF albumPhotosResult(albumId, photoIds, userId) # "ok"
       THEN UNCHANGED album_photos
       ELSE album_photos' =
                {r \in album_photos : ~(r.album_id = albumId /\ r.photo_id \in photoIds)}

(***************************************************************************)
(* PermissionModel: permission groups                                      *)
(***************************************************************************)
\* friend_id of the accepted rows between currentUserId and one of userIds
validIds(currentUserId, userIds) ==
    {IF f.requester_id = currentUserId THEN f.addressee_id ELSE f.requester_id :
        f \in {g \in friendships :
                  /\ \/ (g.requester_id = currentUserId /\ g.addressee_id \in userIds)
                     \/ (g.addressee_id = currentUserId /\ g.requester_id \in userIds)
                  /\ g.status = "accepted"}}

validateFriendships(currentUserId, userIds) ==
    LET existingUserIds == userIds \cap Users
        friendIds == validIds(currentUserId, userIds)
        nonExistentIds == userIds \ existingUserIds
        nonFriendIds == existingUserIds \ friendIds
    IN IF userIds = {}
       THEN [valid |-> TRUE, validIds |-> {}, invalidIds |-> {}]
       ELSE [valid |-> (nonExistentIds = {} /\ nonFriendIds = {}),
             validIds |-> friendIds,
             invalidIds |-> nonExistentIds \cup nonFriendIds]

\* WHERE id = $1 AND owner_id = $2 AND is_active = true
ownedActiveGroup(groupId, ownerId) ==
    {g \in permission_groups : g.id = groupId /\ g.owner_id = ownerId /\ g.is_active}

\* found = FALSE is the null result
getPermissionGroupById(groupId, ownerId) ==
    [found |-> ownedActiveGroup(groupId, ownerId) # {},
     members |-> {m.user_id : m \in {r \in permission_group_members : r.group_id = groupId}}]

\* permission_group_members.group_id REFERENCES permission_groups(id): an
\* INSERT of a member row of a group id without row fails
groupExists(groupId) == \E g \in permission_groups : g.id = groupId

memberRows(groupId, userIds) == {[group_id |-> groupId, user_id |-> u] : u \in userIds}

(***************************************************************************)
(* PermissionService                                                       *)
(***************************************************************************)
createPermissionGroupResult(userId, userIds) ==
    IF userIds # {} /\ ~validateFriendships(userId, userIds).valid
    THEN "Invalid users"
    ELSE "ok"

createPermissionGroup(userId, userIds) ==
    /\ UNCHANGED <<friendVars, photoVars, albumVars, access_permissions, shareVars, now, users,
                   inflight, replacing>>
    /\ IF createPermissionGroupResult(userId, userIds) # "ok"
       THEN UNCHANGED groupVars
       ELSE /\ permission_groups_id_seq <= MaxGroupId
            /\ permission_groups' = permission_groups \cup
                   {[id |-> permission_groups_id_seq, owner_id |-> userId,
                     is_active |-> TRUE]}
            /\ permission_group_members' = permission_group_members \cup
                   memberRows(permission_groups_id_seq,
                              IF userIds # {}
                              THEN validateFriendships(userId, userIds).validIds
                              ELSE {})
            /\ permission_groups_id_seq' = permission_groups_id_seq + 1

\* updateData = {name?, description?, userIds?}: nameGiven says whether name or
\* description is supplied, given whether userIds is.  The transaction of
\* PermissionModel.updatePermissionGroup commits before the group is read back.
updatePermissionGroupCommits(groupId, userId, nameGiven, given, userIds) ==
    /\ ~(given /\ userIds # {} /\ ~validateFriendships(userId, userIds).valid)
    /\ ~(nameGiven /\ ownedActiveGroup(groupId, userId) = {})
    /\ ~(given /\ userIds # {} /\ ~groupExists(groupId))

updatePermissionGroupResult(groupId, userId, nameGiven, given, userIds) ==
    IF given /\ userIds # {} /\ ~validateFriendships(userId, userIds).valid
    THEN "Invalid users"
    ELSE IF \/ nameGiven /\ ownedActiveGroup(groupId, userId) = {}
            \/ given /\ userIds # {} /\ ~groupExists(groupId)
    THEN "Failed to update permission group"
    ELSE IF ~getPermissionGroupById(groupId, userId).found
    THEN "Permission group not found"
    ELSE "ok"

updatePermissionGroup(groupId, userId, nameGiven, given, userIds) ==
    /\ UNCHANGED <<friendVars, photoVars, albumVars, access_permissions, shareVars, now, users,
                   inflight, replacing>>
    /\ UNCHANGED <<permission_groups, permission_groups_id_seq>>
    /\ IF updatePermissionGroupCommits(groupId, userId, nameGiven, given, userIds) /\ given
       THEN permission_group_members' =
                {r \in permission_group_members : r.group_id # groupId}
                \cup memberRows(groupId, validateFriendships(userId, userIds).validIds)
       ELSE UNCHANGED permission_group_members

deletePermissionGroupResult(groupId, userId) ==
    IF ownedActiveGroup(groupId, userId) = {} THEN "Permission group not found" ELSE "ok"

deletePermissionGroup(groupId, userId) ==
    /\ UNCHANGED <<friendVars, photoVars, albumVars, access_permissions, shareVars, now, users,
                   inflight, replacing>>
    /\ UNCHANGED <<permission_groups_id_seq, permission_group_members>>
    /\ IF deletePermissionGroupResult(groupId, userId) # "ok"
       THEN UNCHANGED permission_groups
       ELSE permission_groups' =
                {IF g \in ownedActiveGroup(groupId, userId)
                 THEN [g EXCEPT !.is_active = FALSE] ELSE g : g \in permission_groups}

addUsersToGroupResult(groupId, userId, userIds) ==
    IF ~validateFriendships(userId, userIds).valid THEN "Invalid users"
    ELSE IF ownedActiveGroup(groupId, userId) = {} THEN "Permission group not found"
    ELSE "ok"

addUsersToGroup(groupId, userId, userIds) ==
    /\ UNCHANGED <<friendVars, photoVars, albumVars, access_permissions, shareVars, now, users,
                   inflight, replacing>>
    /\ UNCHANGED <<permission_groups, permission_groups_id_seq>>
    /\ LET existingUserIds ==
               {r.user_id : r \in {m \in permission_group_members : m.group_id = groupId}}
           newUserIds == validateFriendships(userId, userIds).validIds \ existingUserIds
       IN IF addUsersToGroupResult(groupId, userId, userIds) # "ok"
          THEN UNCHANGED permission_group_members
          ELSE permission_group_members' =
                   permission_group_members \cup memberRows(groupId, newUserIds)

\* "user_id IN ()" of an empty userIds is rejected by the data store: ROLLBACK
removeUsersFromGroupResult(groupId, userId, userIds) ==
    IF ownedActiveGroup(groupId, userId) = {} THEN "Permission group not found"
    ELSE IF userIds = {} THEN "Failed to remove users from group"
    ELSE "ok"

removeUsersFromGroup(groupId, userId, userIds) ==
    /\ UNCHANGED <<friendVars, photoVars, albumVars, access_permissions, shareVars, now, users,
                   inflight, replacing>>
    /\ UNCHANGED <<permission_groups, permission_groups_id_seq>>
    /\ IF removeUsersFromGroupResult(groupId, userId, userIds) # "ok"
       THEN UNCHANGED permission_group_members
       ELSE permission_group_members' =
                {r \in permission_group_members :
                    ~(r.group_id = groupId /\ r.user_id \in userIds)}

\* PermissionModel.getUserDefaultPermissions: the row of the user as stored;
\* PermissionService.getUserDefaultPermissions hands it on unchanged
getUserDefaultPermissions(userId) == users[userId]

\* users.auto_sync_custom_group_id REFERENCES permission_groups(id)
updateUserDefaultPermissionsResult(userId, permissionType, customGroupId) ==
    IF /\ permissionType = "custom"
       /\ customGroupId # NULL
       /\ ~getPermissionGroupById(customGroupId, userId).found
    THEN "Custom permission group not found"
    ELSE IF customGroupId # NULL /\ ~groupExists(customGroupId)
    THEN "Failed to update default permissions"
    ELSE "ok"

updateUserDefaultPermissions(userId, permissionType, customGroupId) ==
    /\ UNCHANGED <<friendVars, photoVars, albumVars, access_permissions, groupVars,
                   shareVars, now>>
    /\ IF updateUserDefaultPermissionsResult(userId, permissionType, customGroupId) # "ok"
       THEN UNCHANGED users
       ELSE users' = [users EXCEPT ![userId] =
                         [auto_sync_permission_type |-> permissionType,
                          auto_sync_custom_group_id |-> customGroupId]]

\* The transaction of PermissionModel.updatePermissionGroup for a call with
\* userIds alone, statement by statement, as the data store runs it at its
\* default isolation level (read committed): a statement sees the rows
\* committed when it starts; a DELETE waits for the open transaction that
\* has deleted one of its rows and then skips the rows that are gone; an
\* INSERT fails on UNIQUE(group_id, user_id) against a committed row and
\* waits for an open transaction that has inserted the same row.
Transactions == 1..MaxTransactions

NoTransaction ==
    [pc |-> "idle", groupId |-> 0, userIds |-> {}, seen |-> {}, deleted |-> {}]

groupMembers(groupId) == {r \in permission_group_members : r.group_id = groupId}

\* BEGIN, and the DELETE statement starts: it sees the committed rows
updatePermissionGroup_BEGIN(t, groupId, ownerId, userIds) ==
    /\ replacing[t].pc = "idle"
    /\ \A o \in Transactions : o < t => replacing[o].pc # "idle"
    /\ ownedActiveGroup(groupId, ownerId) # {}
    /\ userIds = {} \/ validateFriendships(ownerId, userIds).valid
    /\ replacing' = [replacing EXCEPT ![t] =
           [pc |-> "deleting", groupId |-> groupId, userIds |-> userIds,
            seen |-> groupMembers(groupId), deleted |-> {}]]
    /\ UNCHANGED <<permission_groups, permission_groups_id_seq, permission_group_members,
                   inflight>>
    /\ UNCHANGED <<friendVars, photoVars, albumVars, access_permissions, shareVars, now, users>>

\* DELETE FROM permission_group_members WHERE group_id = $1
updatePermissionGroup_DELETE(t) ==
    /\ replacing[t].pc = "deleting"
    /\ \A o \in Transactions \ {t} :
          replacing[o].pc \in {"deleted", "inserted"} =>
              replacing[o].deleted \cap replacing[t].seen = {}
    /\ replacing' = [replacing EXCEPT
           ![t].pc = "deleted",
           ![t].deleted = replacing[t].seen \cap permission_group_members]
    /\ UNCHANGED <<permission_groups, permission_groups_id_seq, permission_group_members,
                   inflight>>
    /\ UNCHANGED <<friendVars, photoVars, albumVars, access_permissions, shareVars, now, users>>

\* INSERT INTO permission_group_members; on an error ROLLBACK
updatePermissionGroup_INSERT(t) ==
    /\ replacing[t].pc = "deleted"
    /\ \A o \in Transactions \ {t} :
          (replacing[o].pc = "inserted" /\ replacing[o].groupId = replacing[t].groupId) =>
              replacing[o].userIds \cap replacing[t].userIds = {}
    /\ replacing' = [replacing EXCEPT
           ![t].pc =
               IF memberRows(replacing[t].groupId, replacing[t].userIds)
                      \cap (permission_group_members \ replacing[t].deleted) # {}
               THEN "failed" ELSE "inserted"]
    /\ UNCHANGED <<permission_groups, permission_groups_id_seq, permission_group_members,
                   inflight>>
    /\ UNCHANGED <<friendVars, photoVars, albumVars, access_permissions, shareVars, now, users>>

\* COMMIT
updatePermissionGroup_COMMIT(t) ==
    /\ replacing[t].pc = "inserted"
    /\ permission_group_members' =
           (permission_group_members \ replacing[t].deleted)
               \cup memberRows(replacing[t].groupId, replacing[t].userIds)
    /\ replacing' = [replacing EXCEPT ![t].pc = "committed"]
    /\ UNCHANGED <<permission_groups, permission_groups_id_seq, inflight>>
    /\ UNCHANGED <<friendVars, photoVars, albumVars, access_permissions, shareVars, now, users>>

\* no PermissionService call is between its two steps
NoCall ==
    [op |-> "none", groupId |-> 0, userId |-> 0, nameGiven |-> FALSE,
     given |-> FALSE, userIds |-> {}]

\* A PermissionService handler awaits validateFriendships and then awaits the
\* PermissionModel call: two steps, and the handlers of other requests run
\* between them.  inflight holds what the handler keeps between the two: its
\* arguments, with userIds replaced by validation.validIds.
createPermissionGroupValidated(userId, userIds) ==
    /\ inflight = NoCall
    /\ createPermissionGroupResult(userId, userIds) = "ok"
    /\ permission_groups_id_seq <= MaxGroupId
    /\ inflight' = [op |-> "createPermissionGroup", groupId |-> 0, userId |-> userId,
                    nameGiven |-> FALSE, given |-> userIds # {},
                    userIds |-> IF userIds # {}
                                THEN validateFriendships(userId, userIds).validIds
                                ELSE {}]
    /\ UNCHANGED <<permission_groups, permission_groups_id_seq, permission_group_members>>
    /\ UNCHANGED <<friendVars, photoVars, albumVars, access_permissions, shareVars, now, users,
                   replacing>>

\* the transaction of PermissionModel.createPermissionGroup
PermissionModel_createPermissionGroup ==
    /\ inflight.op = "createPermissionGroup"
    /\ permission_groups_id_seq <= MaxGroupId
    /\ permission_groups' = permission_groups \cup
           {[id |-> permission_groups_id_seq, owner_id |-> inflight.userId,
             is_active |-> TRUE]}
    /\ permission_group_members' = permission_group_members \cup
           memberRows(permission_groups_id_seq, inflight.userIds)
    /\ permission_groups_id_seq' = permission_groups_id_seq + 1
    /\ inflight' = NoCall
    /\ UNCHANGED <<friendVars, photoVars, albumVars, access_permissions, shareVars, now, users,
                   replacing>>

updatePermissionGroupValidated(groupId, userId, nameGiven, given, userIds) ==
    /\ inflight = NoCall
    /\ ~(given /\ userIds # {} /\ ~validateFriendships(userId, userIds).valid)
    /\ inflight' = [op |-> "updatePermissionGroup", groupId |-> groupId,
                    userId |-> userId, nameGiven |-> nameGiven, given |-> given,
                    userIds |-> IF given /\ userIds # {}
                                THEN validateFriendships(userId, userIds).validIds
                                ELSE {}]
    /\ UNCHANGED <<permission_groups, permission_groups_id_seq, permission_group_members>>
    /\ UNCHANGED <<friendVars, photoVars, albumVars, access_permissions, shareVars, now, users,
                   replacing>>

\* the transaction of PermissionModel.updatePermissionGroup: ROLLBACK when the
\* UPDATE of name or description finds no row or the INSERT fails
PermissionModel_updatePermissionGroup ==
    /\ inflight.op = "updatePermissionGroup"
    /\ IF \/ inflight.nameGiven /\ ownedActiveGroup(inflight.groupId, inflight.userId) = {}
          \/ inflight.userIds # {} /\ ~groupExists(inflight.groupId)
          \/ ~inflight.given
       THEN UNCHANGED permission_group_members
       ELSE permission_group_members' =
                {r \in permission_group_members : r.group_id # inflight.groupId}
                \cup memberRows(inflight.groupId, inflight.userIds)
    /\ inflight' = NoCall
    /\ UNCHANGED <<permission_groups, permission_groups_id_seq>>
    /\ UNCHANGED <<friendVars, photoVars, albumVars, access_permissions, shareVars, now, users,
                   replacing>>

addUsersToGroupValidated(groupId, userId, userIds) ==
    /\ inflight = NoCall
    /\ validateFriendships(userId, userIds).valid
    /\ inflight' = [op |-> "addUsersToGroup", groupId |-> groupId, userId |-> userId,
                    nameGiven |-> FALSE, given |-> TRUE,
                    userIds |-> validateFriendships(userId, userIds).validIds]
    /\ UNCHANGED <<permission_groups, permission_groups_id_seq, permission_group_members>>
    /\ UNCHANGED <<friendVars, photoVars, albumVars, access_permissions, shareVars, now, users,
                   replacing>>

\* the transaction of PermissionModel.addUsersToGroup
PermissionModel_addUsersToGroup ==
    /\ inflight.op = "addUsersToGroup"
    /\ LET existingUserIds ==
               {r.user_id : r \in {m \in permission_group_members :
                                      m.group_id = inflight.groupId}}
           newUserIds == inflight.userIds \ existingUserIds
       IN IF ownedActiveGroup(inflight.groupId, inflight.userId) = {}
          THEN UNCHANGED permission_group_members
          ELSE permission_group_members' =
                   permission_group_members \cup memberRows(inflight.groupId, newUserIds)
    /\ inflight' = NoCall
    /\ UNCHANGED <<permission_groups, permission_groups_id_seq>>
    /\ UNCHANGED <<friendVars, photoVars, albumVars, access_permissions, shareVars, now, users,
                   replacing>>

(***************************************************************************)
(* SharingModel: shares                                                    *)
(***************************************************************************)
\* the columns the INSERT of a photo share names; the others stay NULL
photoShareRow(sharerId, recipientId, photoId, expiresAt) ==
    [id |-> photo_shares_id_seq, shared_by |-> sharerId, shared_with |-> recipientId,
     photo_id |-> photoId, album_id |-> NULL, sharer_id |-> NULL, recipient_id |-> NULL,
     expires_at |-> expiresAt, is_active |-> TRUE]

albumShareRow(sharerId, recipientId, albumId, expiresAt) ==
    [id |-> album_shares_id_seq, shared_by |-> sharerId, shared_with |-> recipientId,
     album_id |-> albumId, expires_at |-> expiresAt, is_active |-> TRUE]

\* the columns both SELECTs of getShareById return
shareColumns(row, shareType, albumId, photoId) ==
    [id |-> row.id, shared_by |-> row.shared_by, shared_with |-> row.shared_with,
     share_type |-> shareType, album_id |-> albumId, photo_id |-> photoId,
     expires_at |-> row.expires_at, is_active |-> row.is_active]

\* photo_shares first, album_shares only when photo_shares has no such id
getShareById(shareId) ==
    IF \E ps \in photo_shares : ps.id = shareId
    THEN {shareColumns(ps, "individual_photo", NULL, ps.photo_id) :
            ps \in {r \in photo_shares : r.id = shareId}}
    ELSE {shareColumns(als, "album", als.album_id, NULL) :
            als \in {r \in album_shares : r.id = shareId}}

\* a property read of a result row: a key the row does not have is undefined
Prop(row, key) == IF key \in DOMAIN row THEN row[key] ELSE UNDEFINED

\* activeCondition reading the flag only (sensitivity test for C9)
activeConditionFlagOnly(row) == row.is_active

\* is_active = TRUE AND (expires_at IS NULL OR expires_at > CURRENT_TIMESTAMP)
activeCondition(row) ==
    row.is_active /\ (row.expires_at = NULL \/ row.expires_at > now)

\* is_active = FALSE OR expires_at <= CURRENT_TIMESTAMP (NULL compares unknown)
expiredCondition(row) ==
    ~row.is_active \/ (row.expires_at # NULL /\ row.expires_at <= now)

statusCondition(row, status) ==
    CASE status = "active" -> activeCondition(row)
      [] status = "expired" -> expiredCondition(row)
      [] OTHER -> TRUE

\* SharingModel.getSharesByUser without paging: the ids of the listed shares,
\* tagged with the table they come from
getSharesByUser(userId, type, status) ==
    LET mine(row) == IF type = "given" THEN row.shared_by = userId
                     ELSE row.shared_with = userId
    IN {<<"photo_shares", ps.id>> :
            ps \in {r \in photo_shares : mine(r) /\ statusCondition(r, status)}}
       \cup
       {<<"album_shares", als.id>> :
            als \in {r \in album_shares : mine(r) /\ statusCondition(r, status)}}

\* SharingModel.updateShare with updateData = {isActive}: photo_shares first,
\* album_shares only when the first UPDATE returns no row
SharingModel_updateShare(shareId, isActive) ==
    IF \E ps \in photo_shares : ps.id = shareId
    THEN /\ photo_shares' = {IF ps.id = shareId THEN [ps EXCEPT !.is_active = isActive]
                             ELSE ps : ps \in photo_shares}
         /\ UNCHANGED album_shares
    ELSE /\ album_shares' = {IF als.id = shareId THEN [als EXCEPT !.is_active = isActive]
                             ELSE als : als \in album_shares}
         /\ UNCHANGED photo_shares

SharingModel_deleteShare(shareId) ==
    IF \E ps \in photo_shares : ps.id = shareId
    THEN /\ photo_shares' = {ps \in photo_shares : ps.id # shareId}
         /\ UNCHANGED album_shares
    ELSE /\ album_shares' = {als \in album_shares : als.id # shareId}
         /\ UNCHANGED photo_shares

(***************************************************************************)
(* SharingService: shares                                                  *)
(***************************************************************************)
createShareResult(userId, recipientId, shareType, albumId, photoId) ==
    IF ~FriendModel_areFriends(userId, recipientId) THEN "Can only share with friends"
    ELSE IF shareType = "album" /\ albumId # NULL
    THEN IF getAlbumById(albumId, userId) = {} THEN "Album not found or access denied"
         ELSE "ok"
    ELSE IF shareType = "individual_photo" /\ photoId # NULL
    THEN IF ~PhotoModel_isOwner(photoId, userId).isOwner
         THEN "Photo not found or access denied"
         ELSE "ok"
    ELSE IF shareType # "all_photos" THEN "Invalid share type or missing resource ID"
    ELSE "ok"

createShare(userId, recipientId, shareType, albumId, photoId, expiresAt) ==
    /\ UNCHANGED <<friendVars, photoVars, albumVars, access_permissions, groupVars, now, users>>
    /\ IF createShareResult(userId, recipientId, shareType, albumId, photoId) # "ok"
       THEN UNCHANGED shareVars
       ELSE IF shareType = "album" /\ albumId # NULL
       THEN /\ album_shares_id_seq <= MaxShareId
            /\ album_shares' = album_shares \cup
                   {albumShareRow(userId, recipientId, albumId, expiresAt)}
            /\ album_shares_id_seq' = album_shares_id_seq + 1
            /\ UNCHANGED <<photo_shares, photo_shares_id_seq>>
       ELSE /\ photo_shares_id_seq <= MaxShareId
            /\ photo_shares' = photo_shares \cup
                   {photoShareRow(userId, recipientId,
                                  IF shareType = "individual_photo" THEN photoId ELSE NULL,
                                  expiresAt)}
            /\ photo_shares_id_seq' = photo_shares_id_seq + 1
            /\ UNCHANGED <<album_shares, album_shares_id_seq>>

\* who the service takes for the sharer of a row returned by getShareById
sharerOf(share) == Prop(share, "sharer_id")

\* updateShare without its test of the sharer (sensitivity test for C11)
updateShareResultUnchecked(shareId, userId) ==
    IF getShareById(shareId) = {} THEN "Share not found" ELSE "ok"

updateShareResult(shareId, userId) ==
    IF getShareById(shareId) = {} THEN "Share not found"
    ELSE IF \E share \in getShareById(shareId) : sharerOf(share) # userId
    THEN "Only the sharer can modify this share"
    ELSE "ok"

updateShare(shareId, userId, isActive) ==
    /\ UNCHANGED <<friendVars, photoVars, albumVars, access_permissions, groupVars, now, users>>
    /\ UNCHANGED <<photo_shares_id_seq, album_shares_id_seq>>
    /\ IF updateShareResult(shareId, userId) # "ok"
       THEN UNCHANGED <<photo_shares, album_shares>>
       ELSE SharingModel_updateShare(shareId, isActive)

revokeShare(shareId, userId) == updateShare(shareId, userId, FALSE)

reactivateShare(shareId, userId) == updateShare(shareId, userId, TRUE)

deleteShareResult(shareId, userId) ==
    IF getShareById(shareId) = {} THEN "Share not found"
    ELSE IF \E share \in getShareById(shareId) : sharerOf(share) # userId
    THEN "Only the sharer can delete this share"
    ELSE "ok"

deleteShare(shareId, userId) ==
    /\ UNCHANGED <<friendVars, photoVars, albumVars, access_permissions, groupVars, now, users>>
    /\ UNCHANGED <<photo_shares_id_seq, album_shares_id_seq>>
    /\ IF deleteShareResult(shareId, userId) # "ok"
       THEN UNCHANGED <<photo_shares, album_shares>>
       ELSE SharingModel_deleteShare(shareId)

(***************************************************************************)
(* Time                                                                    *)
(***************************************************************************)
Tick ==
    /\ now < MaxTime
    /\ now' = now + 1
    /\ UNCHANGED <<friendVars, photoVars, albumVars, access_permissions, groupVars,
                   shareVars, users>>

(***************************************************************************)
(* Initial state: empty tables.  No statement of the repository writes     *)
(* access_permissions, so its rows are whatever the data store holds: no   *)
(* row, or one group.  The users are interchangeable in the initial state, *)
(* so the group is owned by user 1 and allows nobody, one other user, or   *)
(* every other user.                                                       *)
(***************************************************************************)
LegacyAccessPermissions ==
    {{}} \cup {{[id |-> 1, user_id |-> 1, allowed_user_ids |-> s]} :
                  s \in {{}, {2}, Users \ {1}}}

Init ==
    /\ friendships = {}
    /\ friendships_id_seq = 1
    /\ sending = {}
    /\ photos = {}
    /\ photos_id_seq = 1
    /\ albums = {}
    /\ albums_id_seq = 1
    /\ album_photos = {}
    /\ access_permissions \in LegacyAccessPermissions
    /\ permission_groups = {}
    /\ permission_groups_id_seq = 1
    /\ permission_group_members = {}
    /\ inflight = NoCall
    /\ replacing = [t \in Transactions |-> NoTransaction]
    /\ photo_shares = {}
    /\ photo_shares_id_seq = 1
    /\ album_shares = {}
    /\ album_shares_id_seq = 1
    /\ now = 0
    /\ users = [u \in Users |-> [auto_sync_permission_type |-> "friends",
                               auto_sync_custom_group_id |-> NULL]]

FriendIds == 1..MaxFriendshipId
PhotoIds == 1..MaxPhotoId
AlbumIds == 1..MaxAlbumId
GroupIds == 1..MaxGroupId
ShareIds == 1..MaxShareId
Times == 1..MaxTime
\* the userIds lists a caller sends
IdLists == {ids \in SUBSET UserIds : Cardinality(ids) <= MaxListLen}

FriendNext ==
    \/ \E a \in Users, b \in UserIds : sendFriendRequest(a, b)
    \/ \E u \in Users, r \in FriendIds, act \in {"accept", "decline"} :
          respondToFriendRequest(u, r, act)
    \/ \E u \in Users, f \in Users, act \in {"accept", "decline"} :
          respondToFriendRequestByUserId(u, f, act)
    \/ \E u \in Users, f \in Users : removeFriend(u, f)

PhotoNext ==
    \/ \E u \in Users, t \in PermissionTypes, g \in {UNDEFINED} \cup GroupIds :
          uploadPhoto(u, t, g)
    \/ \E p \in PhotoIds, u \in Users, t \in PermissionTypes \cup {ABSENT},
          g \in {UNDEFINED} \cup GroupIds : updatePhoto(p, u, t, g)
    \/ \E p \in PhotoIds, u \in Users : getPhotoById(p, u)

AlbumNext ==
    \/ \E u \in Users, pub \in BOOLEAN : createAlbum(u, pub)
    \/ \E a \in AlbumIds, u \in Users, pub \in BOOLEAN : updateAlbum(a, u, pub)
    \/ \E a \in AlbumIds, u \in Users : getAlbumDetails(a, u)

GroupNext ==
    \/ \E u \in Users, ids \in IdLists : createPermissionGroup(u, ids)
    \/ \E g \in GroupIds, u \in Users, n \in BOOLEAN, given \in BOOLEAN,
          ids \in IdLists : updatePermissionGroup(g, u, n, given, ids)
    \/ \E g \in GroupIds, u \in Users : deletePermissionGroup(g, u)
    \/ \E g \in GroupIds, u \in Users, ids \in IdLists : addUsersToGroup(g, u, ids)
    \/ \E g \in GroupIds, u \in Users, ids \in IdLists :
          removeUsersFromGroup(g, u, ids)

ShareNext ==
    \/ \E u \in Users, r \in Users, t \in {"all_photos", "album", "individual_photo"},
          a \in {NULL} \cup AlbumIds, p \in {NULL} \cup PhotoIds,
          e \in {NULL} \cup Times : createShare(u, r, t, a, p, e)
    \/ \E s \in ShareIds, u \in Users : revokeShare(s, u)
    \/ \E s \in ShareIds, u \in Users : reactivateShare(s, u)
    \/ \E s \in ShareIds, u \in Users : deleteShare(s, u)

AlbumPhotoNext ==
    \/ \E a \in AlbumIds, ps \in SUBSET PhotoIds, u \in Users : addPhotosToAlbum(a, ps, u)
    \/ \E a \in AlbumIds, ps \in SUBSET PhotoIds, u \in Users :
          removePhotosFromAlbum(a, ps, u)

FriendRaceNext ==
    \/ \E a \in Users, b \in UserIds : sendFriendRequestChecked(a, b)
    \/ \E a \in Users, b \in Users : FriendModel_sendFriendRequest(a, b)

ReplaceNext ==
    \/ \E t \in Transactions, g \in GroupIds, u \in Users, ids \in IdLists :
          updatePermissionGroup_BEGIN(t, g, u, ids)
    \/ \E t \in Transactions : updatePermissionGroup_DELETE(t)
    \/ \E t \in Transactions : updatePermissionGroup_INSERT(t)
    \/ \E t \in Transactions : updatePermissionGroup_COMMIT(t)

\* two users become friends: request and answer
BefriendNext ==
    \/ \E a \in Users, b \in Users : sendFriendRequestChecked(a, b)
    \/ \E a \in Users, b \in Users : FriendModel_sendFriendRequest(a, b)
    \/ \E u \in Users, f \in Users : respondToFriendRequestByUserId(u, f, "accept")

ListingNext ==
    \/ \E t \in Users, u \in Users : getUserPhotos(t, u)
    \/ \E u \in Users : getTimelineFeed(u)
    \/ \E u \in Users : discoverFriendsPhotos(u)

DefaultsNext ==
    \E u \in Users, t \in PermissionTypes, g \in {NULL} \cup GroupIds :
        updateUserDefaultPermissions(u, t, g)

\* permission groups without members: created and soft-deleted
GroupLifeNext ==
    \/ \E u \in Users : createPermissionGroup(u, {})
    \/ \E g \in GroupIds, u \in Users : deletePermissionGroup(g, u)

GroupStepNext ==
    \/ \E u \in Users, ids \in IdLists : createPermissionGroupValidated(u, ids)
    \/ PermissionModel_createPermissionGroup
    \/ \E g \in GroupIds, u \in Users, n \in BOOLEAN, given \in BOOLEAN,
          ids \in IdLists : updatePermissionGroupValidated(g, u, n, given, ids)
    \/ PermissionModel_updatePermissionGroup
    \/ \E g \in GroupIds, u \in Users, ids \in IdLists :
          addUsersToGroupValidated(g, u, ids)
    \/ PermissionModel_addUsersToGroup
    \/ \E g \in GroupIds, u \in Users : deletePermissionGroup(g, u)
    \/ \E g \in GroupIds, u \in Users, ids \in IdLists :
          removeUsersFromGroup(g, u, ids)

Next ==
    \/ FriendNext \/ PhotoNext \/ AlbumNext \/ AlbumPhotoNext \/ GroupNext
    \/ GroupStepNext \/ DefaultsNext \/ FriendRaceNext \/ ReplaceNext \/ ShareNext
    \/ ListingNext \/ Tick

Spec == Init /\ [][Next]_vars

\* friendships, photos and albums: the visibility policies
SpecVisibility == Init /\ [][FriendNext \/ PhotoNext \/ AlbumNext]_vars

\* friendships, permission groups and photos: the custom policy
SpecGroups == Init /\ [][FriendNext \/ GroupNext \/ PhotoNext]_vars

\* friendships and permission groups, each PermissionService call in its two
\* steps: the calls of other requests between validation and transaction
SpecGroupSteps == Init /\ [][FriendNext \/ GroupStepNext]_vars

\* friendships, each sendFriendRequest call in its two steps
SpecFriendRace == Init /\ [][FriendNext \/ FriendRaceNext]_vars

\* friendships, a permission group and two updatePermissionGroup transactions
SpecReplace == Init /\ [][BefriendNext \/ GroupLifeNext \/ ReplaceNext]_vars

\* friendships and photos, read one by one and in lists
SpecListings == Init /\ [][FriendNext \/ PhotoNext \/ ListingNext]_vars

\* permission groups and the default permissions of the users
SpecDefaults == Init /\ [][GroupLifeNext \/ DefaultsNext]_vars

\* photos and albums as far as shares need them: created and read
UploadNext ==
    \/ \E u \in Users, t \in PermissionTypes, g \in {UNDEFINED} \cup GroupIds :
          uploadPhoto(u, t, g)
    \/ \E p \in PhotoIds, u \in Users : getPhotoById(p, u)

AlbumCreateNext ==
    \/ \E u \in Users, pub \in BOOLEAN : createAlbum(u, pub)
    \/ \E a \in AlbumIds, u \in Users : getAlbumDetails(a, u)

\* friendships, photos, albums and the photos of albums
SpecAlbumPhotos == Init /\ [][FriendNext \/ UploadNext \/ AlbumNext \/ AlbumPhotoNext]_vars

\* friendships, photos, shares and time: the share grants on photos
SpecPhotoShares == Init /\ [][FriendNext \/ UploadNext \/ ShareNext \/ Tick]_vars

\* friendships, albums, shares and time: the share grants on albums
SpecAlbumShares == Init /\ [][FriendNext \/ AlbumCreateNext \/ ShareNext \/ Tick]_vars

(***************************************************************************)
(* Properties                                                              *)
(***************************************************************************)
\* C1: ownership override.  For every policy value (public, friends,
\* close_friends, custom, an unknown value), with or without a group id, the
\* photo check answers the owner with "Owner access"; so does getPhotoById for
\* every stored photo, and the album check for every stored album.
C1_OwnershipOverride ==
    /\ \A o \in Users, t \in PermissionTypes \cup {"unknown"}, g \in {NULL} \cup GroupIds :
          checkPhotoPermission(o, o, t, g) =
              [hasPermission |-> TRUE, reason |-> "Owner access"]
    /\ \A p \in photos :
          getPhotoByIdResult(p.id, p.user_id) =
              [found |-> TRUE, hasPermission |-> TRUE, reason |-> "Owner access"]
    /\ \A a \in albums :
          checkAlbumPermission(a.user_id, a.id) =
              [hasPermission |-> TRUE, reason |-> "Owner access"]

\* C1 witness: a custom photo and a private album, each read by its owner
C1_Witness ==
    \E p \in photos, a \in albums :
        /\ p.permission_type = "custom"
        /\ ~a.is_public
        /\ getPhotoByIdResult(p.id, p.user_id).reason = "Owner access"
        /\ getAlbumDetailsResult(a.id, a.user_id).reason = "Owner access"

\* C2: public is universal.  Every user is allowed to read every photo whose
\* permission type is public and every album that was created or updated as
\* public.
C2_PublicIsUniversal ==
    /\ \A p \in photos, v \in Users :
          p.permission_type = "public" => getPhotoByIdResult(p.id, v).hasPermission
    /\ \A a \in albums, v \in Users :
          a.is_public => getAlbumDetailsResult(a.id, v).hasPermission

\* C2 witness: a public album that a user other than its owner is denied
C2_Witness ==
    \E a \in albums, v \in Users :
        /\ a.is_public
        /\ v # a.user_id
        /\ getAlbumDetailsResult(a.id, v) =
               [found |-> TRUE, hasPermission |-> FALSE, reason |-> "Access denied"]

\* C3: friends gating is symmetric and exact.  A user other than the owner is
\* allowed to read a friends or close_friends photo exactly when friendships
\* holds an accepted row between the two, whoever the requester was; the two
\* policies give the same answer; areFriends does not depend on the order of
\* its arguments.
C3_FriendsGating ==
    /\ \A p \in photos, v \in Users :
          (v # p.user_id /\ p.permission_type \in {"friends", "close_friends"}) =>
              (getPhotoByIdResult(p.id, v).hasPermission <=>
                  \E f \in friendships :
                      /\ f.status = "accepted"
                      /\ {f.requester_id, f.addressee_id} = {v, p.user_id})
    /\ \A v \in Users, o \in Users, g \in {NULL} \cup GroupIds :
          checkPhotoPermission(v, o, "friends", g) =
              checkPhotoPermission(v, o, "close_friends", g)
    /\ \A a \in Users, b \in Users : areFriends(a, b) <=> areFriends(b, a)

\* C3 witness: a friends photo whose owner was the addressee of the accepted
\* request, read by the requester
C3_Witness ==
    \E p \in photos, f \in friendships :
        /\ p.permission_type \in {"friends", "close_friends"}
        /\ f.status = "accepted"
        /\ f.addressee_id = p.user_id
        /\ getPhotoByIdResult(p.id, f.requester_id).reason = "Friend access"

\* C4: custom-group gating.  A user other than the owner is allowed to read a
\* custom photo exactly when the photo's group is an active permission group of
\* the photo's owner and the user is in its member set.
C4_CustomGroupGating ==
    \A p \in photos, v \in Users :
        (v # p.user_id /\ p.permission_type = "custom") =>
            (getPhotoByIdResult(p.id, v).hasPermission <=>
                /\ ownedActiveGroup(p.custom_group_id, p.user_id) # {}
                /\ [group_id |-> p.custom_group_id, user_id |-> v] \in permission_group_members)

\* C4 witness: a member of the owner's active group who is denied the photo
\* that carries this group
C4_Witness ==
    \E p \in photos, v \in Users :
        /\ v # p.user_id
        /\ p.permission_type = "custom"
        /\ ownedActiveGroup(p.custom_group_id, p.user_id) # {}
        /\ [group_id |-> p.custom_group_id, user_id |-> v] \in permission_group_members
        /\ ~getPhotoByIdResult(p.id, v).hasPermission

\* C5: stale membership is preserved.  A member of the owner's active group
\* who is no longer a friend of the owner is still allowed to read the photos
\* that carry this group, with the custom reason.
C5_StaleMembershipPreserved ==
    \A p \in photos, m \in Users :
        ( /\ m # p.user_id
          /\ p.permission_type = "custom"
          /\ ownedActiveGroup(p.custom_group_id, p.user_id) # {}
          /\ [group_id |-> p.custom_group_id, user_id |-> m] \in permission_group_members
          /\ ~areFriends(m, p.user_id) ) =>
            getPhotoByIdResult(p.id, m) =
                [found |-> TRUE, hasPermission |-> TRUE, reason |-> "Custom group access"]

\* C5 witness: the friendship is gone, the member row is still there, and the
\* member is denied
C5_Witness ==
    \E p \in photos, m \in Users :
        /\ m # p.user_id
        /\ p.permission_type = "custom"
        /\ ownedActiveGroup(p.custom_group_id, p.user_id) # {}
        /\ [group_id |-> p.custom_group_id, user_id |-> m] \in permission_group_members
        /\ friendships = {}
        /\ friendships_id_seq > 1
        /\ ~getPhotoByIdResult(p.id, m).hasPermission

C7_GrantPrecedesPolicy ==
    \A p \in photos, s \in photo_shares :
        ( /\ s.photo_id = p.id
          /\ s.shared_by = p.user_id
          /\ s.shared_with # p.user_id
          /\ activeCondition(s) ) =>
            getPhotoByIdResult(p.id, s.shared_with).hasPermission

\* C7 witness: an effective share of a friends photo whose recipient is no
\* longer a friend and is denied
C7_Witness ==
    \E p \in photos, s \in photo_shares :
        /\ s.photo_id = p.id
        /\ s.shared_by = p.user_id
        /\ s.shared_with # p.user_id
        /\ activeCondition(s)
        /\ p.permission_type = "friends"
        /\ getPhotoByIdResult(p.id, s.shared_with).reason = "Not friends"

\* C8: an all_photos grant covers every item of the sharer.  The recipient of
\* an effective share without photo and without album, given by the album's
\* owner, is allowed to read the album.
C8_AllPhotosGrantCoversAlbums ==
    \A a \in albums, s \in photo_shares :
        ( /\ s.photo_id = NULL
          /\ s.shared_by = a.user_id
          /\ s.shared_with # a.user_id
          /\ activeCondition(s) ) =>
            getAlbumDetailsResult(a.id, s.shared_with).hasPermission

\* C8 witness: an effective all_photos share whose recipient is denied an
\* album of the sharer
C8_Witness ==
    \E a \in albums, s \in photo_shares :
        /\ s.photo_id = NULL
        /\ s.shared_by = a.user_id
        /\ s.shared_with # a.user_id
        /\ activeCondition(s)
        /\ ~getAlbumDetailsResult(a.id, s.shared_with).hasPermission

\* C9: expiry is absolute.  A share whose expires_at is set and not in the
\* future satisfies the active condition for no value of its flag, is listed
\* among the active shares of neither its sharer nor its recipient, is listed
\* among their expired shares, and gives no "Shared access" to an album.
C9_ExpiryIsAbsolute ==
    /\ \A flag \in BOOLEAN, e \in Times :
          e <= now => ~activeCondition([is_active |-> flag, expires_at |-> e])
    /\ \A s \in photo_shares :
          (s.expires_at # NULL /\ s.expires_at <= now) =>
              /\ <<"photo_shares", s.id>> \notin getSharesByUser(s.shared_by, "given", "active")
              /\ <<"photo_shares", s.id>> \notin
                     getSharesByUser(s.shared_with, "received", "active")
              /\ <<"photo_shares", s.id>> \in getSharesByUser(s.shared_by, "given", "expired")
    /\ \A s \in album_shares :
          (s.expires_at # NULL /\ s.expires_at <= now) =>
              /\ <<"album_shares", s.id>> \notin getSharesByUser(s.shared_by, "given", "active")
              /\ <<"album_shares", s.id>> \notin
                     getSharesByUser(s.shared_with, "received", "active")
              /\ <<"album_shares", s.id>> \in getSharesByUser(s.shared_by, "given", "expired")
              /\ getAlbumDetailsResult(s.album_id, s.shared_with).reason # "Shared access"

\* C9 witness: an album share with its flag set whose expiry time has come
C9_Witness ==
    \E s \in album_shares :
        /\ s.is_active
        /\ s.expires_at # NULL
        /\ s.expires_at <= now
        /\ <<"album_shares", s.id>> \in getSharesByUser(s.shared_with, "received", "all")
        /\ <<"album_shares", s.id>> \notin
               getSharesByUser(s.shared_with, "received", "active")

\* C10: revocation by the sharer takes effect.  For every share, the call
\* revokeShare(id, shared_by) by the user who created it is accepted.
C10_RevocationBySharer ==
    /\ \A s \in photo_shares : updateShareResult(s.id, s.shared_by) = "ok"
    /\ \A s \in album_shares :
          (\A ps \in photo_shares : ps.id # s.id) =>
              updateShareResult(s.id, s.shared_by) = "ok"

\* C10 witness: a share whose creator is refused as not being the sharer
C10_Witness ==
    \E s \in photo_shares :
        updateShareResult(s.id, s.shared_by) = "Only the sharer can modify this share"

\* C11: only the sharer may mutate a share.  revokeShare, reactivateShare and
\* deleteShare by a user who did not create the share (its recipient included)
\* are refused with the "Only the sharer" error, on an id that no share has
\* they answer "Share not found", and a step of one of these calls by a user
\* who created no share of that id leaves both share tables as they are.
C11_OnlySharerMutates ==
    /\ [](\A id \in ShareIds, u \in Users :
            /\ (\A s \in photo_shares \cup album_shares : s.id # id) =>
                  /\ updateShareResult(id, u) = "Share not found"
                  /\ deleteShareResult(id, u) = "Share not found"
            /\ ( /\ \E s \in photo_shares \cup album_shares : s.id = id
                 /\ \A s \in photo_shares \cup album_shares :
                       s.id = id => s.shared_by # u ) =>
                  /\ updateShareResult(id, u) = "Only the sharer can modify this share"
                  /\ deleteShareResult(id, u) = "Only the sharer can delete this share")
    /\ [][\A id \in ShareIds, u \in Users :
            ( /\ revokeShare(id, u) \/ reactivateShare(id, u) \/ deleteShare(id, u)
              /\ \A s \in photo_shares \cup album_shares : s.id = id => s.shared_by # u )
            => UNCHANGED <<photo_shares, album_shares>>]_vars

\* C11 witness: a share whose recipient is refused both the update and the
\* deletion
C11_Witness ==
    \E s \in photo_shares \cup album_shares :
        /\ s.shared_with # s.shared_by
        /\ updateShareResult(s.id, s.shared_with) = "Only the sharer can modify this share"
        /\ deleteShareResult(s.id, s.shared_with) = "Only the sharer can delete this share"

\* C12: shares are created only between current friends.  createShare is
\* refused with "Can only share with friends" whenever friendships holds no
\* accepted row between sharer and recipient (the sharer itself, a user that
\* does not exist, a pending or declined request); every step that adds a
\* share row is taken while such an accepted row exists; and removeFriend
\* leaves every share row as it is.
C12_SharesOnlyBetweenFriends ==
    /\ [](\A u \in Users, r \in UserIds,
             t \in {"all_photos", "album", "individual_photo"},
             a \in {NULL} \cup AlbumIds, p \in {NULL} \cup PhotoIds :
            (~\E f \in friendships :
                 /\ f.status = "accepted"
                 /\ {f.requester_id, f.addressee_id} = {u, r}) =>
                createShareResult(u, r, t, a, p) = "Can only share with friends")
    /\ [][/\ \A s \in (photo_shares' \ photo_shares) \cup (album_shares' \ album_shares) :
                \E f \in friendships :
                    /\ f.status = "accepted"
                    /\ {f.requester_id, f.addressee_id} = {s.shared_by, s.shared_with}
          /\ (\E u \in Users, f \in Users : removeFriend(u, f)) =>
                UNCHANGED <<photo_shares, album_shares>>]_vars

\* C12 witness: a share that is still stored and active after the friendship
\* of its sharer and its recipient was removed
C12_Witness ==
    \E s \in photo_shares \cup album_shares :
        /\ s.is_active
        /\ friendships = {}
        /\ createShareResult(s.shared_by, s.shared_with, "all_photos", NULL, NULL) =
               "Can only share with friends"

\* C13: scope and identifier pairing.  Every stored photo share carries no
\* album id, every stored album share carries its album id, and createShare
\* is refused for every combination of share type and ids that does not pair:
\* all_photos with a photo id or an album id, individual_photo without a photo
\* id, album without an album id, or both ids together.
C13_ScopePairing ==
    /\ \A s \in photo_shares : s.album_id = NULL
    /\ \A s \in album_shares : s.album_id # NULL
    /\ \A u \in Users, r \in Users, t \in {"all_photos", "album", "individual_photo"},
          a \in {NULL} \cup AlbumIds, p \in {NULL} \cup PhotoIds :
          ( \/ (t = "all_photos" /\ (a # NULL \/ p # NULL))
            \/ (t = "individual_photo" /\ p = NULL)
            \/ (t = "album" /\ a = NULL)
            \/ (a # NULL /\ p # NULL) ) =>
              createShareResult(u, r, t, a, p) # "ok"

\* C13 witness: two friends, and an all_photos share that names a photo is
\* accepted
C13_Witness ==
    \E f \in friendships :
        /\ f.status = "accepted"
        /\ createShareResult(f.requester_id, f.addressee_id, "all_photos", NULL, 1) = "ok"

\* C14: album disjunction.  A photo of an album is visible to a user when the
\* photo's own check allows the user or the album is public: the user can
\* then read the photo with getPhotoById or receives it among the photos of
\* getAlbumDetails.
C14_AlbumDisjunction ==
    \A ap \in album_photos, p \in photos, a \in albums, v \in Users :
        ( /\ ap.photo_id = p.id
          /\ ap.album_id = a.id
          /\ \/ checkPhotoPermission(v, p.user_id, p.permission_type,
                                     p.custom_group_id).hasPermission
             \/ a.is_public ) =>
            \/ getPhotoByIdResult(p.id, v).hasPermission
            \/ p.id \in getAlbumDetailsPhotos(a.id, v)

\* C14 witness: a friends photo inside a public album of its owner, and a user
\* without friendship who is denied the photo and the album
C14_Witness ==
    \E ap \in album_photos, p \in photos, a \in albums, v \in Users :
        /\ ap.photo_id = p.id
        /\ ap.album_id = a.id
        /\ p.permission_type = "friends"
        /\ a.is_public
        /\ a.user_id = p.user_id
        /\ getPhotoByIdResult(p.id, v).reason = "Not friends"
        /\ getAlbumDetailsResult(a.id, v).reason = "Access denied"

\* the reasons checkPhotoPermission gives to a policy it cannot evaluate
InvalidPolicyReasons == {"Invalid permission type", "Custom group ID required"}

\* the reasons of checkPhotoPermission
DecisionReasons ==
    {"Owner access", "Public access", "Friend access", "Not friends",
     "Custom group not found", "Custom group access", "Not in custom group"}
        \cup InvalidPolicyReasons

\* C15: fail closed without throwing.  For a user who is not the owner,
\* checkPhotoPermission answers a permission type outside public, friends,
\* close_friends and custom, and the type custom without a group id, with
\* hasPermission = false and an invalid-policy reason; for every input its
\* answer is a decision (hasPermission and a reason), and getPhotoById reads
\* a stored custom photo without group id as that denial.
C15_FailClosed ==
    /\ \A v \in Users, o \in Users, g \in {NULL} \cup GroupIds :
          v # o =>
             /\ checkPhotoPermission(v, o, "unknown", g) =
                   [hasPermission |-> FALSE, reason |-> "Invalid permission type"]
             /\ checkPhotoPermission(v, o, "custom", NULL) =
                   [hasPermission |-> FALSE, reason |-> "Custom group ID required"]
    /\ \A v \in Users, o \in Users, t \in PermissionTypes \cup {"unknown"},
          g \in {NULL} \cup GroupIds :
          checkPhotoPermission(v, o, t, g) \in
              [hasPermission : BOOLEAN, reason : DecisionReasons]
    /\ \A p \in photos, v \in Users :
          (v # p.user_id /\ p.permission_type = "custom" /\ p.custom_group_id = NULL) =>
              /\ ~getPhotoByIdResult(p.id, v).hasPermission
              /\ getPhotoByIdResult(p.id, v).reason \in InvalidPolicyReasons

\* C15 witness: a stored photo whose policy is custom and whose group id is
\* missing, read by a user who is not its owner
C15_Witness ==
    \E p \in photos, v \in Users :
        /\ v # p.user_id
        /\ p.permission_type = "custom"
        /\ p.custom_group_id = NULL
        /\ getPhotoByIdResult(p.id, v) =
              [found |-> TRUE, hasPermission |-> FALSE,
               reason |-> "Custom group ID required"]

\* C16: createPermissionGroup drops invalid members instead of failing.  A
\* call whose userIds hold a user that does not exist or is not an accepted
\* friend of the caller still creates the group: its answer is the success
\* answer, whatever the ids.
C16_InvalidMembersDropped ==
    \A u \in Users, ids \in IdLists : createPermissionGroupResult(u, ids) = "ok"

\* C16 witness: a caller with an accepted friend and a user who is not a
\* friend; the call with both ids is refused and there is still no group
C16_Witness ==
    \E u \in Users, ids \in IdLists :
        /\ validateFriendships(u, ids).validIds # {}
        /\ validateFriendships(u, ids).invalidIds # {}
        /\ createPermissionGroupResult(u, ids) = "Invalid users"
        /\ permission_groups = {}
        /\ permission_groups_id_seq <= MaxGroupId

\* C17: friends-only membership at insertion.  Every member row (g, m) that a
\* createPermissionGroup, addUsersToGroup or updatePermissionGroup call of
\* the owner of g commits is the row of a user m who has an accepted
\* friendship with that owner in the state of the commit, whatever calls of
\* other requests ran between the validation and the transaction.
C17_FriendsOnlyAtInsertion ==
    [][\A r \in permission_group_members' \ permission_group_members :
          \A g \in permission_groups' :
              (g.id = r.group_id /\ g.owner_id = inflight.userId) =>
                  areFriends(r.user_id, g.owner_id)]_vars

\* C17 witness: addUsersToGroup of a group's owner has validated its userIds
\* and has not yet called the model, and a validated user is no longer a
\* friend of the owner and not yet a member
C17_Witness ==
    /\ inflight.op = "addUsersToGroup"
    /\ ownedActiveGroup(inflight.groupId, inflight.userId) # {}
    /\ \E m \in inflight.userIds :
          /\ ~areFriends(m, inflight.userId)
          /\ m \notin getPermissionGroupById(inflight.groupId, inflight.userId).members

\* C18: atomic replace.  An updatePermissionGroup call that fails (its answer
\* is not the success answer: invalid users, failed update, or group not
\* found) leaves permission_group_members as it was before the call.
C18_AtomicReplace ==
    [][\A g \in GroupIds, u \in Users, n \in BOOLEAN, given \in BOOLEAN, ids \in IdLists :
          ( /\ updatePermissionGroupResult(g, u, n, given, ids) # "ok"
            /\ updatePermissionGroup(g, u, n, given, ids) ) =>
              UNCHANGED permission_group_members]_vars

\* C18 witness: a group with a member, and a user who is not its owner whose
\* updatePermissionGroup with userIds alone is answered 'Permission group not
\* found' after its transaction has committed another member set
C18_Witness ==
    \E g \in permission_groups, u \in Users, ids \in IdLists :
        /\ g.is_active
        /\ g.owner_id # u
        /\ getPermissionGroupById(g.id, g.owner_id).members # {}
        /\ updatePermissionGroupResult(g.id, u, FALSE, TRUE, ids) = "Permission group not found"
        /\ updatePermissionGroupCommits(g.id, u, FALSE, TRUE, ids)
        /\ validateFriendships(u, ids).validIds #
               getPermissionGroupById(g.id, g.owner_id).members

\* C19: updatePermissionGroup validates ownership before it touches the
\* members.  A call for a group id that has no row, is owned by another user
\* or is soft-deleted leaves the member rows of that group unchanged, also
\* when the call supplies userIds alone.
C19_OwnershipBeforeMembers ==
    [][\A g \in GroupIds, u \in Users, n \in BOOLEAN, given \in BOOLEAN, ids \in IdLists :
          ( /\ ownedActiveGroup(g, u) = {}
            /\ updatePermissionGroup(g, u, n, given, ids) ) =>
              getPermissionGroupById(g, u).members' = getPermissionGroupById(g, u).members]_vars

\* C19 witness: a soft-deleted group that still has member rows, and a call
\* with an empty userIds and no name whose transaction commits
C19_Witness ==
    \E g \in permission_groups, u \in Users :
        /\ ~g.is_active
        /\ ownedActiveGroup(g.id, u) = {}
        /\ getPermissionGroupById(g.id, u).members # {}
        /\ updatePermissionGroupCommits(g.id, u, FALSE, TRUE, {})

\* C20: group-not-found is uniform.  For a group id that has no row, is owned
\* by another user or is soft-deleted, reading, updating, deleting, adding
\* to and removing from the group give the caller the one answer 'Permission
\* group not found' (or the 'Invalid users' answer of the validation that
\* precedes the group), and the step of such a call leaves the groups and
\* the member rows unchanged.
C20_GroupNotFoundUniform ==
    /\ [](\A g \in GroupIds, u \in Users :
            ownedActiveGroup(g, u) = {} =>
              /\ ~getPermissionGroupById(g, u).found
              /\ deletePermissionGroupResult(g, u) = "Permission group not found"
              /\ \A ids \in IdLists :
                    /\ addUsersToGroupResult(g, u, ids) \in
                          {"Permission group not found", "Invalid users"}
                    /\ removeUsersFromGroupResult(g, u, ids) = "Permission group not found"
                    /\ \A n \in BOOLEAN, given \in BOOLEAN :
                          updatePermissionGroupResult(g, u, n, given, ids) \in
                              {"Permission group not found", "Invalid users"})
    /\ [][\A g \in GroupIds, u \in Users, ids \in IdLists :
            ( /\ ownedActiveGroup(g, u) = {}
              /\ \/ deletePermissionGroup(g, u)
                 \/ addUsersToGroup(g, u, ids)
                 \/ removeUsersFromGroup(g, u, ids)
                 \/ \E n \in BOOLEAN, given \in BOOLEAN :
                       updatePermissionGroup(g, u, n, given, ids) ) =>
                UNCHANGED <<permission_groups, permission_group_members>>]_vars

\* C20 witness: a group id without row, and a caller with valid userIds whose
\* updatePermissionGroup is answered with the failed-update answer
C20_Witness ==
    \E g \in GroupIds, u \in Users, ids \in IdLists :
        /\ ~groupExists(g)
        /\ ids # {}
        /\ validateFriendships(u, ids).valid
        /\ updatePermissionGroupResult(g, u, FALSE, TRUE, ids) =
              "Failed to update permission group"

\* C21: the default policy never dangles.  The default permissions a user
\* reads back never name, with the type custom, a group that is not an active
\* group of that user: for such a stored default the answer is friends.
C21_DefaultNeverDangles ==
    \A u \in Users :
        LET d == getUserDefaultPermissions(u)
        IN (d.auto_sync_permission_type = "custom" /\ d.auto_sync_custom_group_id # NULL) =>
               ownedActiveGroup(d.auto_sync_custom_group_id, u) # {}

\* C21 witness: a user whose default was set to an own group, the group
\* soft-deleted afterwards, and the default read back still custom with it
C21_Witness ==
    \E u \in Users, g \in permission_groups :
        /\ g.owner_id = u
        /\ ~g.is_active
        /\ getUserDefaultPermissions(u) =
              [auto_sync_permission_type |-> "custom", auto_sync_custom_group_id |-> g.id]

C23_OneEdgePerPair ==
    /\ \A f1 \in friendships, f2 \in friendships :
          {f1.requester_id, f1.addressee_id} = {f2.requester_id, f2.addressee_id} =>
              f1 = f2
    /\ \A f \in friendships : f.requester_id # f.addressee_id

\* C23 witness: two calls in opposite directions between the same two users
\* have both passed their check and neither has inserted
C23_Witness ==
    \E a \in Users, b \in Users :
        /\ a # b
        /\ {<<a, b>>, <<b, a>>} \subseteq sending
        /\ checkFriendshipExists(a, b) = {}

\* C24: concurrent updatePermissionGroup is last-write-wins.  When two calls
\* of the owner for the same group with userIds A and B have both committed,
\* the members of the group are exactly A or exactly B, and no call has
\* failed because of the other.
C24_LastWriteWins ==
    /\ \A t \in Transactions : replacing[t].pc # "failed"
    /\ \A t1 \in Transactions, t2 \in Transactions :
          ( /\ t1 # t2
            /\ replacing[t1].pc = "committed"
            /\ replacing[t2].pc = "committed"
            /\ replacing[t1].groupId = replacing[t2].groupId ) =>
              {r.user_id : r \in groupMembers(replacing[t1].groupId)} \in
                  {replacing[t1].userIds, replacing[t2].userIds}

\* C24 witness: two transactions for the same group with disjoint userIds
\* have both run their DELETE and neither has inserted
C24_Witness ==
    /\ replacing[1].pc = "deleted"
    /\ replacing[2].pc = "deleted"
    /\ replacing[1].groupId = replacing[2].groupId
    /\ replacing[1].userIds # {}
    /\ replacing[2].userIds # {}
    /\ replacing[1].userIds \cap replacing[2].userIds = {}

\* C25: the listing handlers omit exactly the denied photos.  A photo is in
\* the list getUserPhotos gives a user exactly when getPhotoById gives the
\* photo to that user, and every photo of getTimelineFeed and of
\* discoverFriendsPhotos is one getPhotoById gives to the user.
C25_ListingsOmitDenied ==
    \A u \in Users :
        /\ \A p \in photos :
              p \in getUserPhotosResult(p.user_id, u) <=>
                  getPhotoByIdResult(p.id, u).hasPermission
        /\ \A t \in Users : getUserPhotosResult(t, u) \subseteq findByUserId(t)
        /\ \A p \in PhotoModel_getTimelineFeed(u) : getPhotoByIdResult(p.id, u).hasPermission
        /\ \A p \in discoverFriendsPhotosResult(u) : getPhotoByIdResult(p.id, u).hasPermission

\* C25 witness: a friends photo and a user with a pending request to its
\* owner, to whom getPhotoById denies it and whose lists leave it out
C25_Witness ==
    \E p \in photos, u \in Users :
        /\ p.permission_type = "friends"
        /\ \E f \in joinedFriendships(u, p) : f.status = "pending"
        /\ ~getPhotoByIdResult(p.id, u).hasPermission
        /\ p \notin getUserPhotosResult(p.user_id, u)
        /\ p \notin PhotoModel_getTimelineFeed(u)
        /\ p \notin discoverFriendsPhotosResult(u)

\* C26: an explicit custom policy is verified before it is persisted.  Every
\* stored photo whose policy is custom carries a non-null group id that names
\* a group owned by the photo's owner (isCustomGroupOwner; the table it reads
\* is never written, so ownership at the time of the write is ownership now),
\* and an update by the owner that chooses custom without a group id is
\* refused.
C26_CustomPolicyVerified ==
    /\ \A p \in photos :
          p.permission_type = "custom" =>
              /\ p.custom_group_id # NULL
              /\ isCustomGroupOwner(p.custom_group_id, p.user_id)
    /\ \A p \in photos :
          updatePhotoResult(p.id, p.user_id, "custom", UNDEFINED) # "ok"

\* C26 witness: the owner of a stored photo that has no group id can ask for
\* the custom policy without naming a group, and a photo stored with the
\* custom policy and no group id exists
C26_Witness ==
    \E p \in photos :
        /\ p.permission_type = "custom"
        /\ p.custom_group_id = NULL
        /\ updatePhotoResult(p.id, p.user_id, "custom", UNDEFINED) = "ok"

\* C27: revoke is reversible, delete is not.  For every unexpired share the
\* user who created it may revoke it, reactivate it (both are updateShare
\* calls that change is_active only, so recipient, scope and expiry stay) and
\* delete it; on an id that no share row has, revoke, reactivate and delete
\* answer "Share not found".
C27_RevokeReversibleDeleteFinal ==
    /\ \A s \in photo_shares :
          (s.expires_at = NULL \/ s.expires_at > now) =>
              /\ updateShareResult(s.id, s.shared_by) = "ok"
              /\ deleteShareResult(s.id, s.shared_by) = "ok"
    /\ \A id \in ShareIds, u \in Users :
          getShareById(id) = {} =>
              /\ updateShareResult(id, u) = "Share not found"
              /\ deleteShareResult(id, u) = "Share not found"

\* C27 witness: an unexpired, active share whose creator asks to delete it or
\* to change its flag
C27_Witness ==
    \E s \in photo_shares :
        /\ activeCondition(s)
        /\ deleteShareResult(s.id, s.shared_by) = "Only the sharer can delete this share"
        /\ updateShareResult(s.id, s.shared_by) # "Share not found"

\* C28: addUsersToGroup reports added versus skipped per candidate.  On an
\* active group of the caller, a call is accepted whatever the candidates
\* are: a candidate who is not an accepted friend of the owner, or who does
\* not exist, is counted as skipped and the call does not fail.
C28_SkippedNotFailed ==
    \A g \in permission_groups, ids \in IdLists :
        g.is_active => addUsersToGroupResult(g.id, g.owner_id, ids) = "ok"

\* C28 witness: an active group whose owner names a friend who is not yet a
\* member together with a user who is not a friend; the call is refused and
\* the friend is not added
C28_Witness ==
    \E g \in permission_groups, ids \in IdLists :
        /\ g.is_active
        /\ validateFriendships(g.owner_id, ids).validIds
               \ getPermissionGroupById(g.id, g.owner_id).members # {}
        /\ validateFriendships(g.owner_id, ids).invalidIds # {}
        /\ addUsersToGroupResult(g.id, g.owner_id, ids) = "Invalid users"

\* C29: friend-request transitions are guarded.  A respond call (by request
\* id or by user id) is accepted only when the caller is the addressee of a
\* pending edge: by request id it is refused for the requester, for a third
\* user and on an edge that is accepted or declined.  In every step, an edge
\* whose status changes was pending, becomes accepted or declined, and the
\* step is a respond call of its addressee; no edge that is accepted or
\* declined changes its status.
C29_RespondGuarded ==
    /\ [](\A f \in friendships, u \in Users, act \in {"accept", "decline"} :
            /\ (u # f.addressee_id \/ f.status # "pending") =>
                   respondToFriendRequestResult(u, f.id, act) # "ok"
            /\ respondToFriendRequestByUserIdResult(u, f.requester_id, act) = "ok" =>
                   \E g \in friendships :
                       /\ g.requester_id = f.requester_id
                       /\ g.addressee_id = u
                       /\ g.status = "pending")
    /\ [][\A f \in friendships, g \in friendships' :
            (g.id = f.id /\ g.status # f.status) =>
                /\ f.status = "pending"
                /\ g.status \in {"accepted", "declined"}
                /\ \E act \in {"accept", "decline"} :
                      \/ respondToFriendRequest(f.addressee_id, f.id, act)
                      \/ respondToFriendRequestByUserId(f.addressee_id,
                                                        f.requester_id, act)]_vars

\* C29 witness: an edge that its addressee has accepted; the requester and
\* the addressee who ask to respond again are refused
C29_Witness ==
    \E f \in friendships :
        /\ f.status = "accepted"
        /\ respondToFriendRequestResult(f.addressee_id, f.id, "decline") =
               "Friend request has already been responded to"
        /\ respondToFriendRequestResult(f.requester_id, f.id, "decline") =
               "Friend request not found or you are not authorized to respond"
        /\ respondToFriendRequestByUserIdResult(f.addressee_id, f.requester_id, "decline") =
               "Friend request not found"

\* C30: a declined request is permanent.  While the edge between a and b is
\* declined, sendFriendRequest between the two is refused in both directions,
\* respond and removeFriend do not touch the edge (it stays, declined, in
\* every step), and a and b are not friends; after removeFriend on an
\* accepted edge a new request between the pair is accepted.
C30_DeclinedIsPermanent ==
    /\ [](\A f \in friendships :
            f.status = "declined" =>
                /\ ~areFriends(f.requester_id, f.addressee_id)
                /\ ~FriendModel_areFriends(f.requester_id, f.addressee_id)
                /\ sendFriendRequestResult(f.requester_id, f.addressee_id) # "ok"
                /\ sendFriendRequestResult(f.addressee_id, f.requester_id) # "ok"
                /\ removeFriendResult(f.requester_id, f.addressee_id) # "ok"
                /\ removeFriendResult(f.addressee_id, f.requester_id) # "ok")
    /\ [][\A f \in friendships : f.status = "declined" => f \in friendships']_vars
    /\ [][\A u \in Users, v \in Users :
            (u # v /\ areFriends(u, v) /\ removeFriend(u, v)) =>
                sendFriendRequestResult(u, v)' = "ok"]_vars

\* C30 witness: a declined edge between two users while a request of its
\* addressee to its requester has passed its check and is not yet inserted
C30_Witness ==
    \E f \in friendships :
        /\ f.status = "declined"
        /\ sendFriendRequestResult(f.addressee_id, f.requester_id) =
               "Friend request was previously declined"
        /\ <<f.addressee_id, f.requester_id>> \in sending

====
